---- MODULE Spec2Model ----
(***************************************************************************)
(* Particle tracking of igm/modules/particles_v1.py.                       *)
(*                                                                         *)
(* Number representation.  The code computes in float32; the model uses    *)
(* integers:                                                               *)
(*   - vertical lengths (thk, topg, usurf, zpos) and smb*dt are counted in *)
(*     tenths of a metre, so the code's 0.1, 10 and -2 are 1, 100 and -20; *)
(*   - horizontal positions are integers, the grid spacing is dx;          *)
(*   - rhpos is a fixed-point fraction with denominator One (rhpos = One   *)
(*     is the code's rhpos == 1);                                          *)
(*   - every real division is truncated downwards (\div) where float32     *)
(*     would round.                                                        *)
(* A real grid index i = (xpos - x[0]) / dx is carried as its numerator    *)
(* xpos - x[0].                                                            *)
(***************************************************************************)
EXTENDS Integers, Sequences, FiniteSets, TLC

\* ------------------------------------------------------------------ bounds
\* last simulation time at which the host still calls the update
MaxT == 4
\* denominator of the fixed-point representation of rhpos
One == 4

\* ------------------------------------------------------- program constants
\* `nthk > 0.1`, `othk > 0.1` (tenths of a metre)
ThkMin == 1
\* `self.thk > 10` in seeding_particles (tenths of a metre)
ThkSeed == 100
\* `self.smb > -2` in seeding_particles (tenths of a metre per unit time)
SmbSeed == -20

\* --------------------------------------------------------------- host grid
\* self.x, self.y: the coordinate vectors of the host grid (x[0] is x[1] here)
x == <<10, 12, 14>>
y == <<20, 22>>
Nx == Len(x)
Ny == Len(y)
dx == x[2] - x[1]
Cols == 0 .. (Nx - 1)
Rows == 0 .. (Ny - 1)
\* self.X, self.Y: the meshgrid of x and y, indexed [row j][column i]
X == [j \in Rows |-> [i \in Cols |-> x[i + 1]]]
Y == [j \in Rows |-> [i \in Cols |-> y[j + 1]]]

\* ---------------------------------------------------------------- helpers
Min(a, b) == IF a <= b THEN a ELSE b
Max(a, b) == IF a >= b THEN a ELSE b

\* tf.clip_by_value(v, lo, hi) = maximum(minimum(v, hi), lo)
clip_by_value_unclipped(v, lo, hi) == v
clip_by_value(v, lo, hi) == Max(Min(v, hi), lo)

\* tf.cast(q, "int32") of the real q = num / den, den > 0: truncation to zero
cast_int32(num, den) == IF num >= 0 THEN num \div den ELSE -((-num) \div den)

\* tf.floor of the real num / den, den > 0
floor(num, den) == num \div den

RECURSIVE SumSeq(_)
SumSeq(s) == IF s = << >> THEN 0 ELSE Head(s) + SumSeq(Tail(s))

\* np.zeros_like(self.thk), tf.zeros_like(self.thk)
zeros_like == [j \in Rows |-> [i \in Cols |-> 0]]

GridSum(g) == SumSeq([k \in 1 .. (Nx * Ny) |-> g[(k - 1) \div Nx][(k - 1) % Nx]])

\* a field that varies linearly over the grid
Ramp(a, bx, by) == [j \in Rows |-> [i \in Cols |-> a + bx * i + by * j]]

\* ----------------------------------------------------------- configuration
\* density_seeding is a fraction <<numerator, denominator>>, denominator > 0
TrackingMethods == {"simple", "3d"}
FrequencySeedings == {0, 2}
DensitySeedings == {<<1, 2>>, <<1, 1>>, <<3, 5>>, <<0, 1>>, <<2, 1>>}
ParamSets == [tracking_method : TrackingMethods,
              frequency_seeding : FrequencySeedings,
              density_seeding : DensitySeedings]
TimeSteps == {1, 2}

\* self.tlast_seeding: -1.0e5000 is float -inf
NegInf == [fin |-> FALSE, val |-> 0]
Finite(v) == [fin |-> TRUE, val |-> v]

\* ------------------------------------------------------------- host inputs
\* The grids the host hands over at a time step (self.thk, self.topg, self.smb,
\* self.uvelbase, self.uvelsurf, self.vvelbase, self.vvelsurf, self.ubar,
\* self.vbar); self.usurf is always topg + thk.
\*   plateau : thick flat ice, no mass balance, one cell per unit time along x
\*   accum   : thick flat ice, accumulation, sheared flow along x and y
\*   margin  : ice of thickness 0, 0.1, 0.2 m and strong ablation in the first
\*             row, 10 m of ice and accumulation in the next, flow down-left
\*   slope   : rising bed, ice thinning along x, mild ablation, upward flow
\*   sink    : high falling bed, thick ice, strong ablation, downward flow
Scenarios ==
  { [thk |-> Ramp(150, 0, 0), topg |-> Ramp(0, 0, 0), smb |-> Ramp(0, 0, 0),
     uvelbase |-> Ramp(2, 0, 0), uvelsurf |-> Ramp(2, 0, 0),
     vvelbase |-> Ramp(0, 0, 0), vvelsurf |-> Ramp(0, 0, 0),
     ubar |-> Ramp(2, 0, 0), vbar |-> Ramp(0, 0, 0)],
    [thk |-> Ramp(150, 0, 0), topg |-> Ramp(0, 0, 0), smb |-> Ramp(50, 0, 0),
     uvelbase |-> Ramp(0, 0, 0), uvelsurf |-> Ramp(1, 0, 0),
     vvelbase |-> Ramp(0, 0, 0), vvelsurf |-> Ramp(1, 0, 0),
     ubar |-> Ramp(1, 0, 0), vbar |-> Ramp(1, 0, 0)],
    [thk |-> Ramp(0, 1, 100), topg |-> Ramp(30, 0, 0), smb |-> Ramp(-30, 0, 40),
     uvelbase |-> Ramp(-1, 0, 0), uvelsurf |-> Ramp(-1, 0, 0),
     vvelbase |-> Ramp(-3, 0, 0), vvelsurf |-> Ramp(-3, 0, 0),
     ubar |-> Ramp(-1, 0, 0), vbar |-> Ramp(-3, 0, 0)],
    [thk |-> Ramp(150, -40, 0), topg |-> Ramp(0, 8, 4), smb |-> Ramp(-10, 0, 0),
     uvelbase |-> Ramp(1, 0, 0), uvelsurf |-> Ramp(1, 0, 0),
     vvelbase |-> Ramp(0, 0, 0), vvelsurf |-> Ramp(0, 0, 0),
     ubar |-> Ramp(1, 0, 0), vbar |-> Ramp(0, 0, 0)],
    [thk |-> Ramp(150, 0, 0), topg |-> Ramp(200, -8, 0), smb |-> Ramp(-30, 0, 0),
     uvelbase |-> Ramp(1, 0, 0), uvelsurf |-> Ramp(1, 0, 0),
     vvelbase |-> Ramp(0, 0, 0), vvelsurf |-> Ramp(0, 0, 0),
     ubar |-> Ramp(1, 0, 0), vbar |-> Ramp(0, 0, 0)] }

\* self.usurf as the host keeps it
Usurf(sc) == [j \in Rows |-> [i \in Cols |-> sc.topg[j][i] + sc.thk[j][i]]]

\* ------------------------------------------------------------------- state
VARIABLES
  pc,               \* "start" before init_particles_v1, "ready" after it and
                    \* after every update that returned, "raised" after an
                    \* exception left init or update
  params,           \* tracking_method, frequency_seeding, density_seeding
  t, dt,            \* self.t, self.dt
  thk, topg, usurf, smb,
  uvelbase, uvelsurf, vvelbase, vvelsurf, ubar, vbar,
  tlast_seeding,
  xpos, ypos, zpos, rhpos, wpos, tpos, englt,
  gridseed,
  nxpos, nypos, nzpos, nrhpos, nwpos, ntpos, nenglt,
  divflux, wvelbase, wvelsurf,
  weight_particles,
  indices,          \* the local `indices` of line 215: <<row, column>> per particle
  othk, topg_p, smb_p, wvel   \* the locals othk, topg, smb, wvel per particle

host == <<t, dt, thk, topg, usurf, smb, uvelbase, uvelsurf, vvelbase, vvelsurf,
          ubar, vbar>>
particles == <<xpos, ypos, zpos, rhpos, wpos, tpos, englt>>
batch == <<nxpos, nypos, nzpos, nrhpos, nwpos, ntpos, nenglt>>
locals == <<indices, othk, topg_p, smb_p, wvel>>
vars == <<pc, params, host, tlast_seeding, particles, gridseed, batch,
          divflux, wvelbase, wvelsurf, weight_particles, locals>>

\* ------------------------------------------------------- init_particles_v1
\* int(1.0 / params.density_seeding) for density = d[1] / d[2], d[1] # 0
rr_rounded(d) ==
  LET n == IF d[1] > 0 THEN d[1] ELSE -d[1]
      q == d[2] \div n
      r == d[2] % n
      m == IF 2 * r < n THEN q
           ELSE IF 2 * r > n THEN q + 1
           ELSE IF q % 2 = 0 THEN q ELSE q + 1
  IN IF d[1] > 0 THEN m ELSE -m
rr_of(d) == IF d[1] > 0 THEN d[2] \div d[1] ELSE -(d[2] \div (-d[1]))

\* the indices a[::step] selects among 0 .. n-1 (step # 0)
Slice(n, step) ==
  IF step > 0 THEN {k \in 0 .. (n - 1) : k % step = 0}
  ELSE {k \in 0 .. (n - 1) : ((n - 1) - k) % (-step) = 0}

\* gridseed = zeros_like(thk) == 1;  gridseed[::rr, ::rr] = True
BuildGridseed(step) ==
  [j \in Rows |-> [i \in Cols |-> j \in Slice(Ny, step) /\ i \in Slice(Nx, step)]]

\* 1.0 / 0 raises ZeroDivisionError, a slice step of 0 raises ValueError
InitRaises(d) == d[1] = 0 \/ rr_of(d) = 0

init_particles_v1 ==
  /\ pc = "start"
  /\ tlast_seeding' = NegInf
  /\ xpos' = << >> /\ ypos' = << >> /\ zpos' = << >> /\ rhpos' = << >>
  /\ wpos' = << >> /\ tpos' = << >> /\ englt' = << >>
  /\ IF InitRaises(params.density_seeding)
       THEN pc' = "raised" /\ gridseed' = [j \in Rows |-> [i \in Cols |-> FALSE]]
       ELSE pc' = "ready" /\ gridseed' = BuildGridseed(rr_of(params.density_seeding))
  /\ UNCHANGED <<params, host, batch, divflux, wvelbase, wvelsurf,
                 weight_particles, locals>>

\* ------------------------------------------------------- seeding_particles
\* I = (self.thk > 10) & (self.smb > -2) & self.gridseed
SeedMask_no_gridseed(H, gs) ==
  [j \in Rows |-> [i \in Cols |-> H.thk[j][i] > ThkSeed /\ H.smb[j][i] > SmbSeed]]
SeedMask(H, gs) ==
  [j \in Rows |-> [i \in Cols |->
      H.thk[j][i] > ThkSeed /\ H.smb[j][i] > SmbSeed /\ gs[j][i]]]

\* F[I]: the entries of F where I holds, in row-major order
Masked(F, I) ==
  LET cells == SelectSeq([k \in 1 .. (Nx * Ny) |-> <<(k - 1) \div Nx, (k - 1) % Nx>>],
                         LAMBDA c : I[c[1]][c[2]])
  IN [k \in 1 .. Len(cells) |-> F[cells[k][1]][cells[k][2]]]

seeding_particles(H, gs, now) ==
  LET I == SeedMask(H, gs)
      XI == Masked(X, I)
  IN [nxpos |-> XI,
      nypos |-> Masked(Y, I),
      nzpos |-> Masked(Usurf(H), I),
      nrhpos |-> [k \in 1 .. Len(XI) |-> One],
      nwpos |-> [k \in 1 .. Len(XI) |-> 1],
      ntpos |-> [k \in 1 .. Len(XI) |-> now],
      nenglt |-> [k \in 1 .. Len(XI) |-> 0]]

\* (self.t.numpy() - self.tlast_seeding) >= params.frequency_seeding
SeedingDue_always(now, tlast, freq) == TRUE
SeedingDue(now, tlast, freq) ==
  IF tlast.fin THEN now - tlast.val >= freq ELSE TRUE

\* ------------------------------------------------------------ field sampler
\* tfa.image.interpolate_bilinear(F, [j, i], indexing="ij") at the real row
\* index qj / dx and column index qi / dx: the cell is clamped into the grid,
\* the weights into [0, 1]
interpolate_bilinear(F, qj, qi) ==
  LET fj == Max(0, Min(floor(qj, dx), Ny - 2))
      fi == Max(0, Min(floor(qi, dx), Nx - 2))
      aj == Min(Max(0, qj - fj * dx), dx)
      ai == Min(Max(0, qi - fi * dx), dx)
      top == F[fj][fi] * (dx - ai) + F[fj][fi + 1] * ai
      bottom == F[fj + 1][fi] * (dx - ai) + F[fj + 1][fi + 1] * ai
  IN (top * (dx - aj) + bottom * aj) \div (dx * dx)

\* --------------------------------------------- vertical velocity (3d mode)
\* compute_gradient_tf(s, dx, dx): centred differences, one-sided at the edges
compute_gradient_tf(s) ==
  [x |-> [j \in Rows |-> [i \in Cols |->
            IF i = 0 THEN (s[j][1] - s[j][0]) \div dx
            ELSE IF i = Nx - 1 THEN (s[j][Nx - 1] - s[j][Nx - 2]) \div dx
            ELSE (s[j][i + 1] - s[j][i - 1]) \div (2 * dx)]],
   y |-> [j \in Rows |-> [i \in Cols |->
            IF j = 0 THEN (s[1][i] - s[0][i]) \div dx
            ELSE IF j = Ny - 1 THEN (s[Ny - 1][i] - s[Ny - 2][i]) \div dx
            ELSE (s[j + 1][i] - s[j - 1][i]) \div (2 * dx)]]]

\* compute_divflux(ubar, vbar, thk, dx, dx): divergence of the flux (u h, v h)
compute_divflux(u, v, h) ==
  LET qx == [j \in Rows |-> [i \in Cols |-> u[j][i] * h[j][i]]]
      qy == [j \in Rows |-> [i \in Cols |-> v[j][i] * h[j][i]]]
      gx == compute_gradient_tf(qx).x
      gy == compute_gradient_tf(qy).y
  IN [j \in Rows |-> [i \in Cols |-> gx[j][i] + gy[j][i]]]

\* self.wvelbase = self.uvelbase * sloptopgx + self.vvelbase * sloptopgy
Wvelbase(H) ==
  LET g == compute_gradient_tf(H.topg)
  IN [j \in Rows |-> [i \in Cols |->
        H.uvelbase[j][i] * g.x[j][i] + H.vvelbase[j][i] * g.y[j][i]]]

\* self.wvelsurf = self.uvelsurf * slopsurfx + self.vvelsurf * slopsurfy - divflux
Wvelsurf(H, df) ==
  LET g == compute_gradient_tf(Usurf(H))
  IN [j \in Rows |-> [i \in Cols |->
        H.uvelsurf[j][i] * g.x[j][i] + H.vvelsurf[j][i] * g.y[j][i] - df[j][i]]]

\* ---------------------------------------------------- advection integrator
\* simple: tf.where(nthk > 0.1, tf.clip_by_value(rhpos * othk / nthk, 0, 1), 1)
RhposSimple(rh, ot, nt) ==
  IF nt > ThkMin THEN clip_by_value((rh * ot) \div nt, 0, One) ELSE One

\* 3d: tf.where(othk > 0.1, (zpos - topg) / othk, 1), zpos already clipped
Rhpos3d(z, tg, ot) ==
  IF ot > ThkMin THEN (One * (z - tg)) \div ot ELSE One

\* vbase + (vsurf - vbase) * (1 - (1 - rhpos) ** 4)
Blend(vb, vs, rh) ==
  vb + ((vs - vb) * (One ^ 4 - (One - rh) ^ 4)) \div (One ^ 4)

\* 3d: tf.clip_by_value(self.xpos, self.x[0], self.x[-1]), same for ypos
DomainClip_off(v, axis) == v
DomainClip(v, axis) == clip_by_value(v, axis[1], axis[Len(axis)])

\* 3d: self.zpos = tf.clip_by_value(self.zpos, topg, topg + othk)
ZposClip_off(z, tg, ot) == z
ZposClip(z, tg, ot) == clip_by_value(z, tg, tg + ot)

\* 3d: self.zpos = self.zpos + self.dt * wvel, z being the clipped value
ZposStep3d(z, w, d) == z + d * w

\* --------------------------------------------------------- weight and time
\* the <<row, column>> the scatter uses: tf.cast of j and i, which lines 88-89
\* computed from the position (xb, yb) the particle had before the integrator
\* moved it to (xa, ya)
Indices_after(xb, yb, xa, ya) ==
  <<cast_int32(ya - y[1], dx), cast_int32(xa - x[1], dx)>>
Indices(xb, yb, xa, ya) ==
  <<cast_int32(yb - y[1], dx), cast_int32(xb - x[1], dx)>>

InGrid(c) == c[1] \in Rows /\ c[2] \in Cols

\* tf.tensor_scatter_nd_add(zeros, idx, upd) where every index is in the grid,
\* and on a device that ignores the indices outside of it
tensor_scatter_nd_add(idx, upd) ==
  [j \in Rows |-> [i \in Cols |->
     SumSeq([p \in 1 .. Len(idx) |-> IF idx[p] = <<j, i>> THEN upd[p] ELSE 0])]]

\* self.englt + tf.where(self.rhpos < 1, self.dt, 0.0)
EngltStep_at_surface_too(e, rh, d) == e + (IF rh <= One THEN d ELSE 0)
EngltStep(e, rh, d) == e + (IF rh < One THEN d ELSE 0)

\* ----------------------------------------------------- update_particles_v1
\* lines 96-136 and 177-187: the fields sampled at one particle, whose real
\* indices are qj / dx and qi / dx; wb, ws are self.wvelbase, self.wvelsurf
Sampled(simple, sc, wb, ws, qj, qi) ==
  [uvelbase |-> interpolate_bilinear(sc.uvelbase, qj, qi),
   vvelbase |-> interpolate_bilinear(sc.vvelbase, qj, qi),
   uvelsurf |-> interpolate_bilinear(sc.uvelsurf, qj, qi),
   vvelsurf |-> interpolate_bilinear(sc.vvelsurf, qj, qi),
   othk |-> interpolate_bilinear(sc.thk, qj, qi),
   topg |-> interpolate_bilinear(sc.topg, qj, qi),
   smb |-> interpolate_bilinear(sc.smb, qj, qi),
   wvelbase |-> IF simple THEN 0 ELSE interpolate_bilinear(wb, qj, qi),
   wvelsurf |-> IF simple THEN 0 ELSE interpolate_bilinear(ws, qj, qi)]

\* lines 139-144 (simple) and 192-195 (3d): the new relative height
NewRhpos(simple, newdt, pz, prh, S) ==
  IF simple THEN RhposSimple(prh, S.othk, S.othk + S.smb * newdt)
  ELSE Rhpos3d(ZposClip(pz, S.topg, S.othk), S.topg, S.othk)

\* lines 146-156 (simple) and 197-213 (3d): velocities and forward Euler, and
\* lines 215-222: the particle's index and update of the scatter
Moved(simple, newdt, px, py, pz, pw, S, rh) ==
  LET uvel == Blend(S.uvelbase, S.uvelsurf, rh)
      vvel == Blend(S.vvelbase, S.vvelsurf, rh)
      wv == Blend(S.wvelbase, S.wvelsurf, rh)
      nthk == S.othk + S.smb * newdt
      xa == IF simple THEN px + newdt * uvel ELSE DomainClip(px + newdt * uvel, x)
      ya == IF simple THEN py + newdt * vvel ELSE DomainClip(py + newdt * vvel, y)
  IN [xpos |-> xa,
      ypos |-> ya,
      zpos |-> IF simple THEN S.topg + (nthk * rh) \div One
               ELSE ZposStep3d(ZposClip(pz, S.topg, S.othk), wv, newdt),
      rhpos |-> rh,
      wvel |-> wv,
      indices |-> Indices(px, py, xa, ya),
      updates |-> IF rh = One THEN pw ELSE 0,
      othk |-> S.othk, topg |-> S.topg, smb |-> S.smb]

Advance(simple, newdt, px, py, pz, prh, pw, S) ==
  Moved(simple, newdt, px, py, pz, pw, S, NewRhpos(simple, newdt, pz, prh, S))

\* The host has advanced the time by newdt and replaced its grids by those of
\* sc; then the whole of update_particles_v1 runs.
update_particles_v1(newdt, sc) ==
  /\ pc = "ready"
  /\ t + newdt <= MaxT
  /\ LET now == t + newdt
         simple == params.tracking_method = "simple"
     IN \* lines 70-82: seeding and merge
        \E seed \in {SeedingDue(now, tlast_seeding, params.frequency_seeding)} :
        \E B \in {seeding_particles(sc, gridseed, now)} :
        \E x1 \in {IF seed THEN xpos \o B.nxpos ELSE xpos} :
        \E y1 \in {IF seed THEN ypos \o B.nypos ELSE ypos} :
        \E z1 \in {IF seed THEN zpos \o B.nzpos ELSE zpos} :
        \E rh1 \in {IF seed THEN rhpos \o B.nrhpos ELSE rhpos} :
        \E w1 \in {IF seed THEN wpos \o B.nwpos ELSE wpos} :
        \E e1 \in {IF seed THEN englt \o B.nenglt ELSE englt} :
        \* lines 164-175: vertical velocity grids (3d)
        \E df \in {IF simple THEN divflux ELSE compute_divflux(sc.ubar, sc.vbar, sc.thk)} :
        \E wb \in {IF simple THEN wvelbase ELSE Wvelbase(sc)} :
        \E ws \in {IF simple THEN wvelsurf ELSE Wvelsurf(sc, df)} :
        \* lines 88-222, particle by particle
        \E R \in {[p \in 1 .. Len(x1) |->
                    Advance(simple, newdt, x1[p], y1[p], z1[p], rh1[p], w1[p],
                            Sampled(simple, sc, wb, ws, y1[p] - y[1], x1[p] - x[1]))]} :
        /\ t' = now /\ dt' = newdt
        /\ thk' = sc.thk /\ topg' = sc.topg /\ usurf' = Usurf(sc) /\ smb' = sc.smb
        /\ uvelbase' = sc.uvelbase /\ uvelsurf' = sc.uvelsurf
        /\ vvelbase' = sc.vvelbase /\ vvelsurf' = sc.vvelsurf
        /\ ubar' = sc.ubar /\ vbar' = sc.vbar
        /\ IF seed
             THEN /\ nxpos' = B.nxpos /\ nypos' = B.nypos /\ nzpos' = B.nzpos
                  /\ nrhpos' = B.nrhpos /\ nwpos' = B.nwpos /\ ntpos' = B.ntpos
                  /\ nenglt' = B.nenglt
                  /\ tlast_seeding' = Finite(now)
                  /\ tpos' = tpos \o B.ntpos
             ELSE UNCHANGED <<batch, tlast_seeding, tpos>>
        /\ divflux' = df /\ wvelbase' = wb /\ wvelsurf' = ws
        /\ wvel' = IF simple THEN << >> ELSE [p \in DOMAIN R |-> R[p].wvel]
        /\ xpos' = [p \in DOMAIN R |-> R[p].xpos]
        /\ ypos' = [p \in DOMAIN R |-> R[p].ypos]
        /\ zpos' = [p \in DOMAIN R |-> R[p].zpos]
        /\ rhpos' = [p \in DOMAIN R |-> R[p].rhpos]
        /\ wpos' = w1
        /\ indices' = [p \in DOMAIN R |-> R[p].indices]
        /\ othk' = [p \in DOMAIN R |-> R[p].othk]
        /\ topg_p' = [p \in DOMAIN R |-> R[p].topg]
        /\ smb_p' = [p \in DOMAIN R |-> R[p].smb]
        \* lines 225-232: an index outside of the grid makes the scatter raise
        \* on a CPU and is ignored on a GPU
        /\ \E raises \in (IF \A p \in DOMAIN R : InGrid(R[p].indices)
                            THEN {FALSE} ELSE {FALSE, TRUE}) :
             IF raises
               THEN pc' = "raised" /\ englt' = e1 /\ UNCHANGED weight_particles
               ELSE /\ pc' = "ready"
                    /\ weight_particles' =
                         tensor_scatter_nd_add([p \in DOMAIN R |-> R[p].indices],
                                               [p \in DOMAIN R |-> R[p].updates])
                    /\ englt' = [p \in DOMAIN R |-> EngltStep(e1[p], R[p].rhpos, newdt)]
        /\ UNCHANGED <<params, gridseed>>

\* ------------------------------------------------------------ specification
Init ==
  /\ pc = "start"
  /\ params \in ParamSets
  /\ t = 0 /\ dt = 0
  /\ thk = zeros_like /\ topg = zeros_like /\ usurf = zeros_like /\ smb = zeros_like
  /\ uvelbase = zeros_like /\ uvelsurf = zeros_like
  /\ vvelbase = zeros_like /\ vvelsurf = zeros_like
  /\ ubar = zeros_like /\ vbar = zeros_like
  /\ tlast_seeding = NegInf
  /\ xpos = << >> /\ ypos = << >> /\ zpos = << >> /\ rhpos = << >>
  /\ wpos = << >> /\ tpos = << >> /\ englt = << >>
  /\ gridseed = [j \in Rows |-> [i \in Cols |-> FALSE]]
  /\ nxpos = << >> /\ nypos = << >> /\ nzpos = << >> /\ nrhpos = << >>
  /\ nwpos = << >> /\ ntpos = << >> /\ nenglt = << >>
  /\ divflux = zeros_like /\ wvelbase = zeros_like /\ wvelsurf = zeros_like
  /\ weight_particles = zeros_like
  /\ indices = << >> /\ othk = << >> /\ topg_p = << >> /\ smb_p = << >> /\ wvel = << >>

Update == \E newdt \in TimeSteps : \E sc \in Scenarios : update_particles_v1(newdt, sc)

Next == init_particles_v1 \/ Update

Spec == Init /\ [][Next]_vars

\* ================================================================== claims
IsSimple == params.tracking_method = "simple"
Is3d == params.tracking_method = "3d"
\* the step is a call of update_particles_v1 (the host time advances in no other step)
IsCall == pc = "ready" /\ t' # t
\* the call returned
Returned == IsCall /\ pc' = "ready"
Cells == Rows \X Cols
SurfaceWeight(p) == IF rhpos[p] = One THEN wpos[p] ELSE 0

C2_WeightTotalIsSurfaceWeight ==
  pc = "ready" =>
    GridSum(weight_particles) = SumSeq([p \in DOMAIN rhpos |-> SurfaceWeight(p)])

\* C3: a call made while t - tlast_seeding < frequency_seeding leaves the
\* length of every particle array and tlast_seeding unchanged (so the count
\* changes only in a call where the difference reaches frequency_seeding), and
\* the first call after init, which finds tlast_seeding = -inf, seeds.
C3_SeedingOnlyWhenDue ==
  [][IsCall =>
       /\ (tlast_seeding.fin /\ t' - tlast_seeding.val < params.frequency_seeding)
            => /\ tlast_seeding' = tlast_seeding
               /\ Len(xpos') = Len(xpos) /\ Len(ypos') = Len(ypos)
               /\ Len(zpos') = Len(zpos) /\ Len(rhpos') = Len(rhpos)
               /\ Len(wpos') = Len(wpos) /\ Len(tpos') = Len(tpos)
               /\ Len(englt') = Len(englt)
       /\ (~tlast_seeding.fin) => tlast_seeding' = Finite(t')]_vars

\* C3 witness: the last call did not seed, and particles exist.
C3_Witness ==
  /\ pc = "ready" /\ tlast_seeding.fin /\ tlast_seeding.val < t
  /\ t - tlast_seeding.val < params.frequency_seeding
  /\ Len(xpos) > 0

\* C4: when the trigger fires, tlast_seeding becomes the current time and the
\* batch has one particle per cell with thk > 10, smb > -2 and gridseed, at that
\* cell's (X, Y, usurf), with rhpos = 1, wpos = 1, englt = 0, tpos = current
\* time; the batch is what is appended (an empty batch when no cell qualifies).
C4_SeedCells == {c \in Cells : thk[c[1]][c[2]] > 100 /\ smb[c[1]][c[2]] > -20
                               /\ gridseed[c[1]][c[2]]}
C4_SeededBatch ==
  [][(IsCall /\ (~tlast_seeding.fin
                 \/ t' - tlast_seeding.val >= params.frequency_seeding)) =>
       /\ tlast_seeding' = Finite(t')
       /\ Len(nxpos') = Cardinality(C4_SeedCells')
       /\ {<<nxpos'[k], nypos'[k], nzpos'[k]>> : k \in DOMAIN nxpos'}
            = {<<X[c[1]][c[2]], Y[c[1]][c[2]], usurf'[c[1]][c[2]]>> : c \in C4_SeedCells'}
       /\ \A k \in DOMAIN nxpos' :
            nrhpos'[k] = One /\ nwpos'[k] = 1 /\ nenglt'[k] = 0 /\ ntpos'[k] = t'
       /\ Len(nypos') = Len(nxpos') /\ Len(nzpos') = Len(nxpos')
       /\ Len(nrhpos') = Len(nxpos') /\ Len(nwpos') = Len(nxpos')
       /\ Len(ntpos') = Len(nxpos') /\ Len(nenglt') = Len(nxpos')
       /\ Len(xpos') = Len(xpos) + Len(nxpos')
       /\ tpos' = tpos \o ntpos' /\ wpos' = wpos \o nwpos']_vars

\* C4 witness: the last call seeded some but not all cells of the seed mask.
C4_Witness ==
  /\ pc = "ready" /\ tlast_seeding = Finite(t)
  /\ Len(nxpos) > 0
  /\ Len(nxpos) < Cardinality({c \in Cells : gridseed[c[1]][c[2]]})
  /\ Len(xpos) > Len(nxpos)

\* C5 (as claimed): in 3d mode, after a call, every stored zpos lies in
\* [bed, bed + thickness] as sampled at the particle before the integration.
C5_StoredZposInsideIce ==
  (pc = "ready" /\ Is3d) =>
    \A p \in DOMAIN zpos : topg_p[p] <= zpos[p] /\ zpos[p] <= topg_p[p] + othk[p]

\* C5 (amended): in 3d mode, after a call, the zpos the forward Euler step of
\* that call started from (the stored zpos less dt * wvel) lies in
\* [bed, bed + thickness] as sampled at the particle before the integration.
C5_ZposBeforeStepInsideIce ==
  (pc = "ready" /\ Is3d) =>
    \A p \in DOMAIN zpos :
      /\ topg_p[p] <= zpos[p] - dt * wvel[p]
      /\ zpos[p] - dt * wvel[p] <= topg_p[p] + othk[p]

\* C5 witness: a 3d call has returned in which a particle in ice thicker than
\* 0.1 m was stepped out of the ice, through the surface or through the bed.
C5_Witness ==
  /\ pc = "ready" /\ Is3d
  /\ \E p \in DOMAIN zpos :
       /\ othk[p] > ThkMin /\ wvel[p] # 0
       /\ (zpos[p] > topg_p[p] + othk[p] \/ zpos[p] < topg_p[p])

\* C6: in 3d mode every particle's xpos is in [x[0], x[-1]] and ypos in
\* [y[0], y[-1]] after every call.
C6_InsideDomain ==
  Is3d =>
    \A p \in DOMAIN xpos :
      /\ x[1] <= xpos[p] /\ xpos[p] <= x[Nx]
      /\ y[1] <= ypos[p] /\ ypos[p] <= y[Ny]

\* C6 witness: a 3d call has returned in which a particle that began in the
\* last column was carried along +x and is held at x[-1], and a particle that
\* began in the first row was carried along -y and is held at y[0].
C6_Witness ==
  /\ pc = "ready" /\ Is3d
  /\ \E p \in DOMAIN xpos :
       indices[p][2] = Nx - 1 /\ uvelsurf[indices[p][1]][Nx - 1] * dt >= dx
       /\ uvelbase[indices[p][1]][Nx - 1] > 0 /\ xpos[p] = x[Nx]
  \/ /\ pc = "ready" /\ Is3d
     /\ \E q \in DOMAIN ypos :
       indices[q][1] = 0 /\ vvelsurf[0][indices[q][2]] < 0
       /\ vvelbase[0][indices[q][2]] < 0 /\ ypos[q] = y[1] /\ xpos[q] = x[1]

\* C7 (as claimed): with frequency_seeding <= 0, density_seeding <= 0 or
\* density_seeding > 1, init_particles_v1 ends in an error: the program never
\* gets ready to update and no particle is ever seeded.
InvalidConfiguration ==
  \/ params.frequency_seeding <= 0
  \/ params.density_seeding[1] <= 0
  \/ params.density_seeding[1] > params.density_seeding[2]
C7_InvalidConfigurationFailsAtInit ==
  InvalidConfiguration => (pc \in {"start", "raised"} /\ xpos = << >> /\ t = 0)

\* C8: in every call that returns, a particle whose rhpos after the integrator
\* step is below 1 gains exactly dt of englt, and one whose rhpos is 1 keeps
\* its englt (a particle seeded in the call starts from 0).
C8_EngltGrowsBelowSurface ==
  [][Returned =>
       /\ Len(englt') = Len(rhpos')
       /\ \A p \in DOMAIN englt' :
            englt'[p] = (IF p <= Len(englt) THEN englt[p] ELSE 0)
                        + (IF rhpos'[p] < One THEN dt' ELSE 0)]_vars

\* C8 witness: after at least two calls, one particle has gathered englacial
\* time over more than one call and another one, seeded before the last call,
\* is at the surface with less englacial time than its age.
C8_Witness ==
  /\ pc = "ready"
  /\ \E p \in DOMAIN englt : rhpos[p] < One /\ englt[p] > dt
  /\ \E q \in DOMAIN englt : rhpos[q] = One /\ tpos[q] < t /\ englt[q] > 0
                             /\ englt[q] < t - tpos[q]

\* the weight grid that the positions xs, ys give: each surface particle adds
\* its wpos to the cell of the truncated (ys - y[0]) / dx, (xs - x[0]) / dx
WeightAt(xs, ys, rh, w) ==
  [j \in Rows |-> [i \in Cols |->
     SumSeq([p \in DOMAIN rh |->
               IF /\ rh[p] = One
                  /\ (IF ys[p] >= y[1] THEN (ys[p] - y[1]) \div dx
                                       ELSE -((y[1] - ys[p]) \div dx)) = j
                  /\ (IF xs[p] >= x[1] THEN (xs[p] - x[1]) \div dx
                                       ELSE -((x[1] - xs[p]) \div dx)) = i
               THEN w[p] ELSE 0])]]

\* C9 (as claimed): the cell a surface particle's wpos is added to is the cell
\* of its position after the call's integrator step.
C9_WeightAtPositionAfterStep ==
  pc = "ready" => weight_particles = WeightAt(xpos, ypos, rhpos, wpos)

\* C9 (amended): the cell a surface particle's wpos is added to in a call is
\* the cell of the position the particle had before the call's integrator
\* step, a particle seeded in the call being at its seeding position.
C9_WeightAtPositionBeforeStep ==
  [][Returned =>
       weight_particles' =
         WeightAt(IF Len(xpos') > Len(xpos) THEN xpos \o nxpos' ELSE xpos,
                  IF Len(ypos') > Len(ypos) THEN ypos \o nypos' ELSE ypos,
                  rhpos', wpos')]_vars

\* C9 witness: a call has returned that moved a surface particle into another
\* cell of the grid, and its weight lies in the cell it came from.
C9_Witness ==
  /\ pc = "ready"
  /\ \E p \in DOMAIN rhpos :
       /\ rhpos[p] = One /\ InGrid(indices[p])
       /\ indices[p] # <<(ypos[p] - y[1]) \div dx, (xpos[p] - x[1]) \div dx>>
       /\ x[1] <= xpos[p] /\ xpos[p] <= x[Nx] /\ y[1] <= ypos[p] /\ ypos[p] <= y[Ny]
       /\ weight_particles[indices[p][1]][indices[p][2]] >= wpos[p]
       /\ weight_particles[(ypos[p] - y[1]) \div dx][(xpos[p] - x[1]) \div dx] = 0

\* the seed mask of stride r: True where row and column are multiples of r
StridedMask(r) == [j \in Rows |-> [i \in Cols |-> j % r = 0 /\ i % r = 0]]
DensityInRange ==
  /\ 0 < params.density_seeding[1]
  /\ params.density_seeding[1] <= params.density_seeding[2]

\* C10 (as claimed): for density_seeding in (0, 1] the seed mask is True
\* exactly where row and column are multiples of round(1 / density_seeding),
\* from init on.
C10_MaskStrideIsRounded ==
  (pc # "start" /\ DensityInRange) =>
    gridseed = StridedMask(rr_rounded(params.density_seeding))

\* C10 (amended): for density_seeding in (0, 1] the seed mask is True exactly
\* where row and column are multiples of int(1 / density_seeding), the largest
\* integer r with r * density_seeding <= 1, from init on.
C10_MaskStrideIsTruncated ==
  (pc # "start" /\ DensityInRange) =>
    \E r \in 1 .. params.density_seeding[2] :
      /\ r * params.density_seeding[1] <= params.density_seeding[2]
      /\ (r + 1) * params.density_seeding[1] > params.density_seeding[2]
      /\ gridseed = StridedMask(r)

\* C10 witness: updates have run with a seed mask of stride 2.
C10_Witness ==
  /\ pc = "ready" /\ t > 1 /\ DensityInRange
  /\ gridseed[0][0] /\ ~gridseed[0][1] /\ gridseed[0][2] /\ ~gridseed[1][0]
  /\ Len(xpos) > 0

====
